---- MODULE Spec2Model ----
(***************************************************************************)
(* Model of src/src/App.tsx: the keyword table's state (useState hooks),   *)
(* its event handlers, and the values derived on every render             *)
(* (filteredKeywords, sortedKeywords, totalVolume, averageKD).             *)
(*                                                                         *)
(* Representation.  A JavaScript string is a sequence of one-character     *)
(* strings.  A JavaScript number is a record [k, v]: k = "num" with the    *)
(* value v, or "nan", "pinf", "ninf".  kd, trafficPotential, volume and    *)
(* word counts carry their integer value; cpc carries the number of        *)
(* hundredths (2.50 is 250), so ParseFloat reads two fraction digits and   *)
(* the texts of the model have no more than two.  The show*Filter flags    *)
(* only open and close popovers and are read by no derived value; they     *)
(* are left out.                                                           *)
(***************************************************************************)
EXTENDS Integers, Sequences, FiniteSets

(***************************************************************************)
(* Bounds of the exploration.                                              *)
(***************************************************************************)
\* filter values (non-empty bound texts, ticked intents, include and
\* exclude terms) that may be active together
MaxActive == 2
\* column-header clicks recorded in one behaviour
MaxSortClicks == 4
\* uploads that may be in flight (being parsed or waiting for the timer)
MaxInFlight == 2

(***************************************************************************)
(* JavaScript numbers.                                                     *)
(***************************************************************************)
Num(n) == [k |-> "num", v |-> n]
NaN == [k |-> "nan", v |-> 0]
Infinity == [k |-> "pinf", v |-> 0]
NegInfinity == [k |-> "ninf", v |-> 0]

\* a >= b
Ge(a, b) ==
  CASE a.k = "nan" \/ b.k = "nan" -> FALSE
    [] b.k = "ninf" -> TRUE
    [] a.k = "pinf" -> TRUE
    [] a.k = "num" /\ b.k = "num" -> a.v >= b.v
    [] OTHER -> FALSE

\* a <= b
Le(a, b) == Ge(b, a)

\* x || 0 : NaN and 0 are falsy
OrZero(x) == IF x.k = "nan" \/ (x.k = "num" /\ x.v = 0) THEN Num(0) ELSE x

\* a - b
Minus(a, b) ==
  CASE a.k = "nan" \/ b.k = "nan" -> NaN
    [] a.k = "num" /\ b.k = "num" -> Num(a.v - b.v)
    [] a.k = b.k -> NaN
    [] a.k = "pinf" \/ b.k = "ninf" -> Infinity
    [] OTHER -> NegInfinity

\* -x
Negate(x) ==
  CASE x.k = "num" -> Num(0 - x.v)
    [] x.k = "pinf" -> NegInfinity
    [] x.k = "ninf" -> Infinity
    [] OTHER -> NaN

(***************************************************************************)
(* JavaScript strings.                                                     *)
(***************************************************************************)
DigitChars == <<"0", "1", "2", "3", "4", "5", "6", "7", "8", "9">>
UpperChars == <<"A", "B", "C", "D", "E", "F", "G", "H", "I", "J", "K", "L", "M",
                "N", "O", "P", "Q", "R", "S", "T", "U", "V", "W", "X", "Y", "Z">>
LowerChars == <<"a", "b", "c", "d", "e", "f", "g", "h", "i", "j", "k", "l", "m",
                "n", "o", "p", "q", "r", "s", "t", "u", "v", "w", "x", "y", "z">>

DigitOf == [d \in {DigitChars[i] : i \in 1..10} |->
              (CHOOSE i \in 1..10 : DigitChars[i] = d) - 1]
LowerOf == [u \in {UpperChars[i] : i \in 1..26} |->
              LowerChars[CHOOSE i \in 1..26 : UpperChars[i] = u]]

IsDigit(c) == c \in DOMAIN DigitOf
DigitVal(c) == DigitOf[c]
\* the white space of \s and of trim() that the texts of the model use
IsSpace(c) == c \in {" ", "\t"}

\* String.prototype.toLowerCase
LowerChar(c) == IF c \in DOMAIN LowerOf THEN LowerOf[c] ELSE c
toLowerCase(s) == [i \in 1..Len(s) |-> LowerChar(s[i])]

\* String.prototype.includes
includes(s, sub) ==
  \E i \in 0..(Len(s) - Len(sub)) : SubSeq(s, i + 1, i + Len(sub)) = sub

\* String.prototype.trim
RECURSIVE trimStart(_)
trimStart(s) == IF s # <<>> /\ IsSpace(s[1]) THEN trimStart(Tail(s)) ELSE s
RECURSIVE trimEnd(_)
trimEnd(s) ==
  IF s # <<>> /\ IsSpace(s[Len(s)]) THEN trimEnd(SubSeq(s, 1, Len(s) - 1)) ELSE s
trim(s) == trimEnd(trimStart(s))

\* s.replace(/,/g, '')
removeCommas(s) == SelectSeq(s, LAMBDA c : c # ",")

\* s.split(/\s+/).length : one piece more than there are maximal runs of
\* white space (the empty string splits into the one piece '')
splitLength(s) ==
  Cardinality({i \in 1..Len(s) : IsSpace(s[i]) /\ (i = 1 \/ ~IsSpace(s[i - 1]))}) + 1

\* the longest prefix of s made of decimal digits
RECURSIVE leadingDigits(_)
leadingDigits(s) ==
  IF s # <<>> /\ IsDigit(s[1]) THEN <<s[1]>> \o leadingDigits(Tail(s)) ELSE <<>>

\* the value of a digit string, read left to right
RECURSIVE digitsValue(_, _)
digitsValue(acc, s) ==
  IF s = <<>> THEN acc ELSE digitsValue(acc * 10 + DigitVal(s[1]), Tail(s))

\* parseInt(s), radix 10: leading white space, a sign, then the longest run
\* of digits; NaN when there is none (no text of the model starts with 0x)
parseInt(s) ==
  LET t == trimStart(s)
      signed == t # <<>> /\ t[1] \in {"-", "+"}
      d == leadingDigits(IF signed THEN Tail(t) ELSE t)
  IN  IF d = <<>> THEN NaN
      ELSE IF signed /\ t[1] = "-" THEN Num(0 - digitsValue(0, d))
      ELSE Num(digitsValue(0, d))

\* parseFloat(s), in hundredths: leading white space, a sign, digits, and a
\* fraction after a point; NaN when neither part has a digit (no text of the
\* model has an exponent or spells Infinity)
parseFloat(s) ==
  LET t == trimStart(s)
      signed == t # <<>> /\ t[1] \in {"-", "+"}
      u == IF signed THEN Tail(t) ELSE t
      ip == leadingDigits(u)
      rest == SubSeq(u, Len(ip) + 1, Len(u))
      fp == IF rest # <<>> /\ rest[1] = "." THEN leadingDigits(Tail(rest)) ELSE <<>>
      f2 == SubSeq(fp \o <<"0", "0">>, 1, 2)
      mag == digitsValue(0, ip) * 100 + digitsValue(0, f2)
  IN  IF ip = <<>> /\ fp = <<>> THEN NaN
      ELSE IF signed /\ t[1] = "-" THEN Num(0 - mag)
      ELSE Num(mag)

(***************************************************************************)
(* The uploaded files, as the rows Papa.parse reports (header: false), and *)
(* the texts typed into the controls.                                      *)
(***************************************************************************)
FileSeo ==
  << << <<"K", "e", "y", "w", "o", "r", "d">>,
       <<"I", "n", "t", "e", "n", "t">>,
       <<"V", "o", "l", "u", "m", "e">>,
       <<"K", "D">>,
       <<"C", "P", "C">>,
       <<"T", "P">>,
       <<"P", "a", "r", "e", "n", "t">> >>,
     << <<"b", "e", "s", "t", " ", "s", "e", "o", " ", "t", "o", "o", "l">>,
       <<"T", ",", "C">>,
       <<"1", ",", "2", "0", "0">>,
       <<"4", "5">>,
       <<"2", ".", "5", "0">>,
       <<"3", "0", "0">>,
       <<"s", "e", "o">> >>,
     << <<"s", "e", "o", " ", "g", "u", "i", "d", "e">>,
       <<"I">>,
       <<"8", "0", "0">>,
       <<"3", "0">>,
       <<"1", ".", "2", "0">>,
       <<"3", "0", "0">>,
       <<"s", "e", "o">> >>,
     << <<"p", "r", "i", "c", "i", "n", "g", " ", "p", "a", "g", "e">>,
       <<"T", ",", "N">>,
       <<"8", "0", "0">>,
       <<"4", "5", "%">>,
       <<"0", ".", "5">>,
       <<>>,
       <<>> >>,
     << <<"f", "r", "e", "e", " ", "t", "r", "i", "a", "l", " ", "o", "f", "f", "e", "r">>,
       <<"C", ",", "T">>,
       <<"2", ",", "4", "0", "0">>,
       <<"1", "0">>,
       <<"3">>,
       <<"1", ",", "0", "0", "0">>,
       <<"t", "r", "i", "a", "l">> >>,
     << <<"f", "r", "e", "e", " ", "o", "f", "f", "e", "r">>,
       <<"N">>,
       <<"9", "0">>,
       <<"1", "5">>,
       <<"0", ".", "7", "5">>,
       <<"2", "0">>,
       <<>> >>,
     << <<"S", "E", "O", " ", " ", "T", "o", "o", "l", " ", "F", "r", "e", "e">>,
       <<"C">>,
       <<"n", "/", "a">>,
       <<"a", "b", "c">>,
       <<>>,
       <<"5", "0">> >>,
     << <<>> >> >>

FileTrial ==
  << << <<"K", "e", "y", "w", "o", "r", "d">>,
       <<"I", "n", "t", "e", "n", "t">>,
       <<"V", "o", "l", "u", "m", "e">>,
       <<"K", "D">>,
       <<"C", "P", "C">>,
       <<"T", "P">>,
       <<"P", "a", "r", "e", "n", "t">> >>,
     << <<" ", "F", "r", "e", "e", " ", " ", "T", "R", "I", "A", "L", " ">>,
       <<>>,
       <<"9", "0">>,
       <<"1", "5">>,
       <<"0", ".", "7", "5">>,
       <<"2", "0">>,
       <<"t", "r", "i", "a", "l">> >>,
     << <<"s", "e", "o", " ", "p", "r", "i", "c", "i", "n", "g">>,
       <<"I", ",", "N">>,
       <<"1", ",", "0", "0", "0">>,
       <<"1", "5">>,
       <<".", "5">>,
       <<"3", "0", "0">>,
       <<"s", "e", "o">> >> >>

T_800 == <<"8", "0", "0">>
T_1000 == <<"1", "0", "0", "0">>
T_45 == <<"4", "5">>
T_dot5 == <<".", "5">>
T_1_20 == <<"1", ".", "2", "0">>
T_1 == <<"1">>
T_2 == <<"2">>
T_300 == <<"3", "0", "0">>
T_20 == <<"2", "0">>
In_Seo == <<" ", "S", "e", "o">>
In_tool == <<"t", "o", "o", "l">>
In_blank == <<" ">>
Ex_free == <<"f", "r", "e", "e">>
Ex_Trial == <<"T", "r", "i", "a", "l", " ">>
Ex_tab == <<"\t">>

VolumeTexts == {T_800, T_1000}
KDTexts == {T_45, T_dot5}
CPCTexts == {T_1_20, T_dot5}
WordCountTexts == {T_1, T_2}
TrafficTexts == {T_300, T_20}
IncludeTexts == {In_Seo, In_tool, In_blank}
ExcludeTexts == {Ex_free, Ex_Trial, Ex_tab}

Files == {"FileSeo", "FileTrial"}
NoFile == "NoFile"
Rows(file) == IF file = "FileSeo" THEN FileSeo ELSE FileTrial

IntentNames == {"informational", "transactional", "commercial", "navigational"}
SortFields == {"volume", "kd", "cpc", "trafficPotential"}
null == "null"

VARIABLES
  keywords, isLoading,
  parsing,        \* files handed to Papa.parse whose complete() has not run
  timers,         \* parsedData of the pending setTimeout callbacks, oldest first
  lastSelected,   \* history: the file handleFileUpload was last called with
  minVolume, maxVolume, minKD, maxKD, minCPC, maxCPC,
  minWordCount, maxWordCount, minTrafficPotential, maxTrafficPotential,
  includeFilter, excludeFilter, includeKeywordInput, excludeKeywordInput,
  selectedIntents, sortField, sortDirection,
  sortClicks      \* history: the fields handleSort was called with, in order

uploadVars == <<keywords, isLoading, parsing, timers, lastSelected>>
volumeVars == <<minVolume, maxVolume>>
kdVars == <<minKD, maxKD>>
cpcVars == <<minCPC, maxCPC>>
wordCountVars == <<minWordCount, maxWordCount>>
trafficVars == <<minTrafficPotential, maxTrafficPotential>>
rangeVars == <<volumeVars, kdVars, cpcVars, wordCountVars, trafficVars>>
includeVars == <<includeFilter, includeKeywordInput>>
excludeVars == <<excludeFilter, excludeKeywordInput>>
sortVars == <<sortField, sortDirection, sortClicks>>
vars == <<uploadVars, rangeVars, includeVars, excludeVars, selectedIntents, sortVars>>

(***************************************************************************)
(* Ingestion: the mapping of handleFileUpload's complete callback.         *)
(***************************************************************************)
\* row[i] || ''   (a missing column is undefined)
cellOrEmpty(row, i) == IF i <= Len(row) THEN row[i] ELSE <<>>
\* parseInt(row[i]) || 0   (parseInt(undefined) is NaN)
cellInt(row, i) == OrZero(IF i <= Len(row) THEN parseInt(row[i]) ELSE NaN)
\* parseFloat(row[i]) || 0
cellFloat(row, i) == OrZero(IF i <= Len(row) THEN parseFloat(row[i]) ELSE NaN)

mapRow(row) ==
  [keyword |-> cellOrEmpty(row, 1),
   intent |-> cellOrEmpty(row, 2),
   volume |-> cellOrEmpty(row, 3),
   kd |-> cellInt(row, 4),
   cpc |-> cellFloat(row, 5),
   trafficPotential |-> cellInt(row, 6),
   parentKeyword |-> cellOrEmpty(row, 7)]

\* mutant: the header row is mapped like any other row
parsedDataKeepHeader(data) == [i \in 1..Len(data) |-> mapRow(data[i])]

\* results.data.slice(1).map(...)
parsedData(data) ==
  LET body == SubSeq(data, 2, Len(data))
  IN  [i \in 1..Len(body) |-> mapRow(body[i])]

(***************************************************************************)
(* Values derived on every render.                                         *)
(***************************************************************************)
\* mutant: the thousands separators are left in the string
volumeOfKeepCommas(keyword) == OrZero(parseInt(keyword.volume))

\* parseInt(keyword.volume.replace(/,/g, '')) || 0
volumeOf(keyword) == OrZero(parseInt(removeCommas(keyword.volume)))

minVol == IF minVolume # <<>> THEN parseInt(minVolume) ELSE NegInfinity
\* mutant: an unset upper bound counts as 0
maxVolUnsetZero == IF maxVolume # <<>> THEN parseInt(maxVolume) ELSE Num(0)

maxVol == IF maxVolume # <<>> THEN parseInt(maxVolume) ELSE Infinity
minKDVal == IF minKD # <<>> THEN parseInt(minKD) ELSE NegInfinity
maxKDVal == IF maxKD # <<>> THEN parseInt(maxKD) ELSE Infinity
minCPCVal == IF minCPC # <<>> THEN parseFloat(minCPC) ELSE NegInfinity
maxCPCVal == IF maxCPC # <<>> THEN parseFloat(maxCPC) ELSE Infinity
minWords == IF minWordCount # <<>> THEN parseInt(minWordCount) ELSE NegInfinity
maxWords == IF maxWordCount # <<>> THEN parseInt(maxWordCount) ELSE Infinity
minTraffic ==
  IF minTrafficPotential # <<>> THEN parseInt(minTrafficPotential) ELSE NegInfinity
maxTraffic ==
  IF maxTrafficPotential # <<>> THEN parseInt(maxTrafficPotential) ELSE Infinity

getWordCount(keyword) == Num(splitLength(trim(keyword)))

anyIntentSelected == \E i \in IntentNames : selectedIntents[i]

\* mutant: every selected code has to occur in the intent string
intentMatchAll(keyword) ==
  /\ selectedIntents.informational => includes(keyword.intent, <<"I">>)
  /\ selectedIntents.transactional => includes(keyword.intent, <<"T">>)
  /\ selectedIntents.commercial => includes(keyword.intent, <<"C">>)
  /\ selectedIntents.navigational => includes(keyword.intent, <<"N">>)

intentMatch(keyword) ==
  \/ ~anyIntentSelected
  \/ selectedIntents.informational /\ includes(keyword.intent, <<"I">>)
  \/ selectedIntents.transactional /\ includes(keyword.intent, <<"T">>)
  \/ selectedIntents.commercial /\ includes(keyword.intent, <<"C">>)
  \/ selectedIntents.navigational /\ includes(keyword.intent, <<"N">>)

\* keyword.keyword.toLowerCase().includes(k.toLowerCase())
termIn(keyword, k) == includes(toLowerCase(keyword.keyword), toLowerCase(k))

\* mutant: the keyword and the terms are compared without toLowerCase
includeMatchCaseSensitive(keyword) ==
  \/ Len(includeFilter.keywords) = 0
  \/ IF includeFilter.type = "all"
       THEN \A i \in 1..Len(includeFilter.keywords) :
              includes(keyword.keyword, includeFilter.keywords[i])
       ELSE \E i \in 1..Len(includeFilter.keywords) :
              includes(keyword.keyword, includeFilter.keywords[i])

includeMatch(keyword) ==
  \/ Len(includeFilter.keywords) = 0
  \/ IF includeFilter.type = "all"
       THEN \A i \in 1..Len(includeFilter.keywords) :
              termIn(keyword, includeFilter.keywords[i])
       ELSE \E i \in 1..Len(includeFilter.keywords) :
              termIn(keyword, includeFilter.keywords[i])

\* mutant: the two modes are taken for each other
excludeMatchModesSwapped(keyword) ==
  \/ Len(excludeFilter.keywords) = 0
  \/ IF excludeFilter.type = "any"
       THEN ~(\A i \in 1..Len(excludeFilter.keywords) :
                termIn(keyword, excludeFilter.keywords[i]))
       ELSE ~(\E i \in 1..Len(excludeFilter.keywords) :
                termIn(keyword, excludeFilter.keywords[i]))

\* mutant: in mode "all" one contained term is enough to reject
excludeMatchAnyRejects(keyword) ==
  \/ Len(excludeFilter.keywords) = 0
  \/ ~(\E i \in 1..Len(excludeFilter.keywords) :
          termIn(keyword, excludeFilter.keywords[i]))

excludeMatch(keyword) ==
  \/ Len(excludeFilter.keywords) = 0
  \/ IF excludeFilter.type = "all"
       THEN ~(\A i \in 1..Len(excludeFilter.keywords) :
                termIn(keyword, excludeFilter.keywords[i]))
       ELSE ~(\E i \in 1..Len(excludeFilter.keywords) :
                termIn(keyword, excludeFilter.keywords[i]))

\* mutant: the bounds themselves are left out of the range
volumeInRangeStrict(keyword) ==
  /\ Ge(volumeOf(keyword), minVol) /\ volumeOf(keyword) # minVol
  /\ Le(volumeOf(keyword), maxVol) /\ volumeOf(keyword) # maxVol

volumeInRange(keyword) ==
  Ge(volumeOf(keyword), minVol) /\ Le(volumeOf(keyword), maxVol)
kdInRange(keyword) == Ge(keyword.kd, minKDVal) /\ Le(keyword.kd, maxKDVal)
cpcInRange(keyword) == Ge(keyword.cpc, minCPCVal) /\ Le(keyword.cpc, maxCPCVal)
wordCountInRange(keyword) ==
  /\ Ge(getWordCount(keyword.keyword), minWords)
  /\ Le(getWordCount(keyword.keyword), maxWords)
trafficInRange(keyword) ==
  /\ Ge(keyword.trafficPotential, minTraffic)
  /\ Le(keyword.trafficPotential, maxTraffic)

\* mutant: the exclude test is left out of the conjunction
keywordPassesNoExclude(keyword) ==
  /\ volumeInRange(keyword)
  /\ kdInRange(keyword)
  /\ cpcInRange(keyword)
  /\ wordCountInRange(keyword)
  /\ trafficInRange(keyword)
  /\ intentMatch(keyword)
  /\ includeMatch(keyword)

\* the callback of keywords.filter: its return expression
keywordPasses(keyword) ==
  /\ volumeInRange(keyword)
  /\ kdInRange(keyword)
  /\ cpcInRange(keyword)
  /\ wordCountInRange(keyword)
  /\ trafficInRange(keyword)
  /\ intentMatch(keyword)
  /\ includeMatch(keyword)
  /\ excludeMatch(keyword)

\* Array.prototype.filter: the elements that pass, in order
RECURSIVE filter(_)
filter(s) ==
  IF s = <<>> THEN <<>>
  ELSE IF keywordPasses(Head(s)) THEN <<Head(s)>> \o filter(Tail(s))
  ELSE filter(Tail(s))

filteredKeywords == filter(keywords)

\* mutant: the two directions are exchanged
compareFnSwapped(a, b) ==
  IF sortField = null THEN Num(0)
  ELSE LET comparison ==
             IF sortField = "volume" THEN Minus(volumeOf(a), volumeOf(b))
             ELSE Minus(a[sortField], b[sortField])
       IN  IF sortDirection = "asc" THEN Negate(comparison) ELSE comparison

\* mutant: an unset sort field orders by volume
compareFnDefaultVolume(a, b) ==
  LET comparison ==
        IF sortField = "volume" \/ sortField = null
          THEN Minus(volumeOf(a), volumeOf(b))
          ELSE Minus(a[sortField], b[sortField])
  IN  IF sortDirection = "asc" THEN comparison ELSE Negate(comparison)

\* the comparator handed to sort
compareFn(a, b) ==
  IF sortField = null THEN Num(0)
  ELSE LET comparison ==
             IF sortField = "volume" THEN Minus(volumeOf(a), volumeOf(b))
             ELSE Minus(a[sortField], b[sortField])
       IN  IF sortDirection = "asc" THEN comparison ELSE Negate(comparison)

\* Array.prototype.sort is stable: b goes before a only when
\* compareFn(a, b) > 0 (a NaN result counts as 0)
isPositive(x) == x.k = "pinf" \/ (x.k = "num" /\ x.v > 0)

RECURSIVE insert(_, _)
insert(sorted, x) ==
  IF sorted # <<>> /\ isPositive(compareFn(sorted[Len(sorted)], x))
    THEN Append(insert(SubSeq(sorted, 1, Len(sorted) - 1), x), sorted[Len(sorted)])
    ELSE Append(sorted, x)

RECURSIVE sort(_)
sort(s) ==
  IF s = <<>> THEN <<>>
  ELSE insert(sort(SubSeq(s, 1, Len(s) - 1)), s[Len(s)])

sortedKeywords == sort(filteredKeywords)

\* a + b of two finite numbers (every volumeOf is finite)
Plus(a, b) == IF a.k = "num" /\ b.k = "num" THEN Num(a.v + b.v) ELSE NaN

\* filteredKeywords.reduce((sum, item) => sum + volume, 0)
RECURSIVE reduceVolume(_, _)
reduceVolume(sum, s) ==
  IF s = <<>> THEN sum ELSE reduceVolume(Plus(sum, volumeOf(Head(s))), Tail(s))

totalVolume == reduceVolume(Num(0), filteredKeywords)

\* filteredKeywords.reduce((sum, item) => sum + item.kd, 0)
RECURSIVE reduceKD(_, _)
reduceKD(sum, s) ==
  IF s = <<>> THEN sum ELSE reduceKD(Plus(sum, Head(s).kd), Tail(s))

\* Math.round(a / b) of an integer a and a count b > 0: floor(a / b + 1/2)
roundQuotient(a, b) == (2 * a + b) \div (2 * b)

\* mutant: the quotient is cut to the integer below (Math.floor)
averageKDFloor ==
  IF Len(filteredKeywords) > 0
    THEN Num(reduceKD(Num(0), filteredKeywords).v \div Len(filteredKeywords))
    ELSE Num(0)

averageKD ==
  IF Len(filteredKeywords) > 0
    THEN Num(roundQuotient(reduceKD(Num(0), filteredKeywords).v,
                           Len(filteredKeywords)))
    ELSE Num(0)

(***************************************************************************)
(* Initial state: the useState defaults.                                   *)
(***************************************************************************)
noIntents == [i \in IntentNames |-> FALSE]

InitControls ==
  /\ isLoading = FALSE
  /\ parsing = <<>>
  /\ timers = <<>>
  /\ minVolume = <<>> /\ maxVolume = <<>>
  /\ minKD = <<>> /\ maxKD = <<>>
  /\ minCPC = <<>> /\ maxCPC = <<>>
  /\ minWordCount = <<>> /\ maxWordCount = <<>>
  /\ minTrafficPotential = <<>> /\ maxTrafficPotential = <<>>
  /\ includeFilter = [type |-> "all", keywords |-> <<>>]
  /\ excludeFilter = [type |-> "all", keywords |-> <<>>]
  /\ includeKeywordInput = <<>>
  /\ excludeKeywordInput = <<>>
  /\ selectedIntents = noIntents
  /\ sortField = null
  /\ sortDirection = "desc"
  /\ sortClicks = <<>>

Init == keywords = <<>> /\ lastSelected = NoFile /\ InitControls

\* the session after one of the given files has been uploaded and installed
InitLoaded(files) ==
  /\ \E file \in files : keywords = parsedData(Rows(file)) /\ lastSelected = file
  /\ InitControls

(***************************************************************************)
(* The exploration budget: how many filter values are active.              *)
(***************************************************************************)
boundTexts ==
  <<minVolume, maxVolume, minKD, maxKD, minCPC, maxCPC, minWordCount,
    maxWordCount, minTrafficPotential, maxTrafficPotential>>

ActiveCount ==
  Cardinality({i \in 1..10 : boundTexts[i] # <<>>})
    + Cardinality({i \in IntentNames : selectedIntents[i]})
    + Len(includeFilter.keywords) + Len(excludeFilter.keywords)

\* a control may go from empty to filled only within the budget
WithinBudget(old, new) == (old = <<>> /\ new # <<>>) => ActiveCount < MaxActive

(***************************************************************************)
(* handleFileUpload and the two callbacks it schedules.                    *)
(***************************************************************************)
handleFileUpload(file) ==
  IF file # NoFile
    THEN /\ Len(parsing) + Len(timers) < MaxInFlight
         /\ isLoading' = TRUE
         /\ parsing' = Append(parsing, file)
         /\ lastSelected' = file
         /\ UNCHANGED <<keywords, timers, rangeVars, includeVars, excludeVars,
                        selectedIntents, sortVars>>
    ELSE UNCHANGED vars

\* Papa.parse reports completion of the i-th pending parse
complete(i) ==
  /\ i \in 1..Len(parsing)
  /\ timers' = Append(timers, parsedData(Rows(parsing[i])))
  /\ parsing' = [j \in 1..(Len(parsing) - 1) |->
                   IF j < i THEN parsing[j] ELSE parsing[j + 1]]
  /\ UNCHANGED <<keywords, isLoading, lastSelected, rangeVars, includeVars,
                 excludeVars, selectedIntents, sortVars>>

\* mutant: the parsed records are added to the collection already installed
timeoutAppends ==
  /\ timers # <<>>
  /\ keywords' = keywords \o Head(timers)
  /\ isLoading' = FALSE
  /\ timers' = Tail(timers)
  /\ UNCHANGED <<parsing, lastSelected, rangeVars, includeVars, excludeVars,
                 selectedIntents, sortVars>>

\* the setTimeout callback; equal delays fire in the order they were set
timeout ==
  /\ timers # <<>>
  /\ keywords' = Head(timers)
  /\ isLoading' = FALSE
  /\ timers' = Tail(timers)
  /\ UNCHANGED <<parsing, lastSelected, rangeVars, includeVars, excludeVars,
                 selectedIntents, sortVars>>

\* mutant: a failed parse empties the collection
parseErrorClears(i) ==
  /\ i \in 1..Len(parsing)
  /\ parsing' = [j \in 1..(Len(parsing) - 1) |->
                   IF j < i THEN parsing[j] ELSE parsing[j + 1]]
  /\ keywords' = <<>>
  /\ UNCHANGED <<isLoading, timers, lastSelected, rangeVars, includeVars,
                 excludeVars, selectedIntents, sortVars>>

\* the i-th pending parse fails: Papa.parse calls error, never complete
parseError(i) ==
  /\ i \in 1..Len(parsing)
  /\ parsing' = [j \in 1..(Len(parsing) - 1) |->
                   IF j < i THEN parsing[j] ELSE parsing[j + 1]]
  /\ UNCHANGED <<keywords, isLoading, timers, lastSelected, rangeVars,
                 includeVars, excludeVars, selectedIntents, sortVars>>

(***************************************************************************)
(* The range inputs (onChange) and their Clear buttons.                    *)
(***************************************************************************)
setMinVolume(value) ==
  /\ value # minVolume /\ WithinBudget(minVolume, value)
  /\ minVolume' = value
  /\ UNCHANGED <<uploadVars, maxVolume, kdVars, cpcVars, wordCountVars,
                 trafficVars, includeVars, excludeVars, selectedIntents, sortVars>>

setMaxVolume(value) ==
  /\ value # maxVolume /\ WithinBudget(maxVolume, value)
  /\ maxVolume' = value
  /\ UNCHANGED <<uploadVars, minVolume, kdVars, cpcVars, wordCountVars,
                 trafficVars, includeVars, excludeVars, selectedIntents, sortVars>>

clearVolume ==
  /\ minVolume' = <<>> /\ maxVolume' = <<>>
  /\ UNCHANGED <<uploadVars, kdVars, cpcVars, wordCountVars, trafficVars,
                 includeVars, excludeVars, selectedIntents, sortVars>>

setMinKD(value) ==
  /\ value # minKD /\ WithinBudget(minKD, value)
  /\ minKD' = value
  /\ UNCHANGED <<uploadVars, volumeVars, maxKD, cpcVars, wordCountVars,
                 trafficVars, includeVars, excludeVars, selectedIntents, sortVars>>

setMaxKD(value) ==
  /\ value # maxKD /\ WithinBudget(maxKD, value)
  /\ maxKD' = value
  /\ UNCHANGED <<uploadVars, volumeVars, minKD, cpcVars, wordCountVars,
                 trafficVars, includeVars, excludeVars, selectedIntents, sortVars>>

clearKD ==
  /\ minKD' = <<>> /\ maxKD' = <<>>
  /\ UNCHANGED <<uploadVars, volumeVars, cpcVars, wordCountVars, trafficVars,
                 includeVars, excludeVars, selectedIntents, sortVars>>

setMinCPC(value) ==
  /\ value # minCPC /\ WithinBudget(minCPC, value)
  /\ minCPC' = value
  /\ UNCHANGED <<uploadVars, volumeVars, kdVars, maxCPC, wordCountVars,
                 trafficVars, includeVars, excludeVars, selectedIntents, sortVars>>

setMaxCPC(value) ==
  /\ value # maxCPC /\ WithinBudget(maxCPC, value)
  /\ maxCPC' = value
  /\ UNCHANGED <<uploadVars, volumeVars, kdVars, minCPC, wordCountVars,
                 trafficVars, includeVars, excludeVars, selectedIntents, sortVars>>

clearCPC ==
  /\ minCPC' = <<>> /\ maxCPC' = <<>>
  /\ UNCHANGED <<uploadVars, volumeVars, kdVars, wordCountVars, trafficVars,
                 includeVars, excludeVars, selectedIntents, sortVars>>

setMinWordCount(value) ==
  /\ value # minWordCount /\ WithinBudget(minWordCount, value)
  /\ minWordCount' = value
  /\ UNCHANGED <<uploadVars, volumeVars, kdVars, cpcVars, maxWordCount,
                 trafficVars, includeVars, excludeVars, selectedIntents, sortVars>>

setMaxWordCount(value) ==
  /\ value # maxWordCount /\ WithinBudget(maxWordCount, value)
  /\ maxWordCount' = value
  /\ UNCHANGED <<uploadVars, volumeVars, kdVars, cpcVars, minWordCount,
                 trafficVars, includeVars, excludeVars, selectedIntents, sortVars>>

clearWordCount ==
  /\ minWordCount' = <<>> /\ maxWordCount' = <<>>
  /\ UNCHANGED <<uploadVars, volumeVars, kdVars, cpcVars, trafficVars,
                 includeVars, excludeVars, selectedIntents, sortVars>>

setMinTrafficPotential(value) ==
  /\ value # minTrafficPotential /\ WithinBudget(minTrafficPotential, value)
  /\ minTrafficPotential' = value
  /\ UNCHANGED <<uploadVars, volumeVars, kdVars, cpcVars, wordCountVars,
                 maxTrafficPotential, includeVars, excludeVars, selectedIntents,
                 sortVars>>

setMaxTrafficPotential(value) ==
  /\ value # maxTrafficPotential /\ WithinBudget(maxTrafficPotential, value)
  /\ maxTrafficPotential' = value
  /\ UNCHANGED <<uploadVars, volumeVars, kdVars, cpcVars, wordCountVars,
                 minTrafficPotential, includeVars, excludeVars, selectedIntents,
                 sortVars>>

clearTrafficPotential ==
  /\ minTrafficPotential' = <<>> /\ maxTrafficPotential' = <<>>
  /\ UNCHANGED <<uploadVars, volumeVars, kdVars, cpcVars, wordCountVars,
                 includeVars, excludeVars, selectedIntents, sortVars>>

(***************************************************************************)
(* The intent checkboxes.                                                  *)
(***************************************************************************)
handleIntentChange(intent) ==
  /\ ~selectedIntents[intent] => ActiveCount < MaxActive
  /\ selectedIntents' = [selectedIntents EXCEPT ![intent] = ~selectedIntents[intent]]
  /\ UNCHANGED <<uploadVars, rangeVars, includeVars, excludeVars, sortVars>>

clearIntents ==
  /\ selectedIntents' = noIntents
  /\ UNCHANGED <<uploadVars, rangeVars, includeVars, excludeVars, sortVars>>

(***************************************************************************)
(* The include and exclude term lists.                                     *)
(***************************************************************************)
\* keywords.filter((_, i) => i !== index)
removeAt(s, index) ==
  [j \in 1..(Len(s) - 1) |-> IF j < index THEN s[j] ELSE s[j + 1]]

setIncludeKeywordInput(value) ==
  /\ value # includeKeywordInput
  /\ includeKeywordInput' = value
  /\ UNCHANGED <<uploadVars, rangeVars, includeFilter, excludeVars,
                 selectedIntents, sortVars>>

\* mutant: the input is tested and stored as typed, white space included
handleAddIncludeKeywordRaw ==
  IF includeKeywordInput # <<>>
    THEN /\ ActiveCount < MaxActive
         /\ includeFilter' =
              [includeFilter EXCEPT !.keywords = Append(@, includeKeywordInput)]
         /\ includeKeywordInput' = <<>>
         /\ UNCHANGED <<uploadVars, rangeVars, excludeVars, selectedIntents,
                        sortVars>>
    ELSE UNCHANGED vars

handleAddIncludeKeyword ==
  IF trim(includeKeywordInput) # <<>>
    THEN /\ ActiveCount < MaxActive
         /\ includeFilter' =
              [includeFilter EXCEPT
                 !.keywords = Append(@, trim(includeKeywordInput))]
         /\ includeKeywordInput' = <<>>
         /\ UNCHANGED <<uploadVars, rangeVars, excludeVars, selectedIntents,
                        sortVars>>
    ELSE UNCHANGED vars

handleRemoveIncludeKeyword(index) ==
  /\ index \in 1..Len(includeFilter.keywords)
  /\ includeFilter' = [includeFilter EXCEPT !.keywords = removeAt(@, index)]
  /\ UNCHANGED <<uploadVars, rangeVars, includeKeywordInput, excludeVars,
                 selectedIntents, sortVars>>

setIncludeType(type) ==
  /\ includeFilter' = [includeFilter EXCEPT !.type = type]
  /\ UNCHANGED <<uploadVars, rangeVars, includeKeywordInput, excludeVars,
                 selectedIntents, sortVars>>

setExcludeKeywordInput(value) ==
  /\ value # excludeKeywordInput
  /\ excludeKeywordInput' = value
  /\ UNCHANGED <<uploadVars, rangeVars, includeVars, excludeFilter,
                 selectedIntents, sortVars>>

handleAddExcludeKeyword ==
  IF trim(excludeKeywordInput) # <<>>
    THEN /\ ActiveCount < MaxActive
         /\ excludeFilter' =
              [excludeFilter EXCEPT
                 !.keywords = Append(@, trim(excludeKeywordInput))]
         /\ excludeKeywordInput' = <<>>
         /\ UNCHANGED <<uploadVars, rangeVars, includeVars, selectedIntents,
                        sortVars>>
    ELSE UNCHANGED vars

handleRemoveExcludeKeyword(index) ==
  /\ index \in 1..Len(excludeFilter.keywords)
  /\ excludeFilter' = [excludeFilter EXCEPT !.keywords = removeAt(@, index)]
  /\ UNCHANGED <<uploadVars, rangeVars, includeVars, excludeKeywordInput,
                 selectedIntents, sortVars>>

setExcludeType(type) ==
  /\ excludeFilter' = [excludeFilter EXCEPT !.type = type]
  /\ UNCHANGED <<uploadVars, rangeVars, includeVars, excludeKeywordInput,
                 selectedIntents, sortVars>>

(***************************************************************************)
(* The sortable column headers.                                            *)
(***************************************************************************)
flip(direction) == IF direction = "asc" THEN "desc" ELSE "asc"

\* mutant: a click on a header also unticks the intent checkboxes
handleSortClearsIntents(field) ==
  /\ Len(sortClicks) < MaxSortClicks
  /\ sortClicks' = Append(sortClicks, field)
  /\ IF sortField = field
       THEN /\ sortDirection' = flip(sortDirection)
            /\ UNCHANGED sortField
       ELSE /\ sortField' = field
            /\ sortDirection' = "desc"
  /\ selectedIntents' = noIntents
  /\ UNCHANGED <<uploadVars, rangeVars, includeVars, excludeVars>>

\* mutant: a click on another field keeps the direction it finds
handleSortKeepDirection(field) ==
  /\ Len(sortClicks) < MaxSortClicks
  /\ sortClicks' = Append(sortClicks, field)
  /\ IF sortField = field
       THEN /\ sortDirection' = flip(sortDirection)
            /\ UNCHANGED sortField
       ELSE /\ sortField' = field
            /\ UNCHANGED sortDirection
  /\ UNCHANGED <<uploadVars, rangeVars, includeVars, excludeVars, selectedIntents>>

handleSort(field) ==
  /\ Len(sortClicks) < MaxSortClicks
  /\ sortClicks' = Append(sortClicks, field)
  /\ IF sortField = field
       THEN /\ sortDirection' = flip(sortDirection)
            /\ UNCHANGED sortField
       ELSE /\ sortField' = field
            /\ sortDirection' = "desc"
  /\ UNCHANGED <<uploadVars, rangeVars, includeVars, excludeVars, selectedIntents>>

(***************************************************************************)
(* Specifications.                                                         *)
(***************************************************************************)
UploadStep ==
  \/ \E file \in Files \cup {NoFile} : handleFileUpload(file)
  \/ \E i \in 1..MaxInFlight : complete(i)
  \/ timeout
  \/ \E i \in 1..MaxInFlight : parseError(i)

RangeStep ==
  \/ \E value \in VolumeTexts \cup {<<>>} : setMinVolume(value)
  \/ \E value \in VolumeTexts \cup {<<>>} : setMaxVolume(value)
  \/ clearVolume
  \/ \E value \in KDTexts \cup {<<>>} : setMinKD(value)
  \/ \E value \in KDTexts \cup {<<>>} : setMaxKD(value)
  \/ clearKD
  \/ \E value \in CPCTexts \cup {<<>>} : setMinCPC(value)
  \/ \E value \in CPCTexts \cup {<<>>} : setMaxCPC(value)
  \/ clearCPC
  \/ \E value \in WordCountTexts \cup {<<>>} : setMinWordCount(value)
  \/ \E value \in WordCountTexts \cup {<<>>} : setMaxWordCount(value)
  \/ clearWordCount
  \/ \E value \in TrafficTexts \cup {<<>>} : setMinTrafficPotential(value)
  \/ \E value \in TrafficTexts \cup {<<>>} : setMaxTrafficPotential(value)
  \/ clearTrafficPotential

IntentStep ==
  \/ \E intent \in IntentNames : handleIntentChange(intent)
  \/ clearIntents

TermStep(includeTexts, excludeTexts) ==
  \/ \E value \in includeTexts \cup {<<>>} : setIncludeKeywordInput(value)
  \/ handleAddIncludeKeyword
  \/ \E index \in 1..(MaxActive + 1) : handleRemoveIncludeKeyword(index)
  \/ \E type \in {"all", "any"} : setIncludeType(type)
  \/ \E value \in excludeTexts \cup {<<>>} : setExcludeKeywordInput(value)
  \/ handleAddExcludeKeyword
  \/ \E index \in 1..(MaxActive + 1) : handleRemoveExcludeKeyword(index)
  \/ \E type \in {"all", "any"} : setExcludeType(type)

SortStep == \E field \in SortFields : handleSort(field)

\* the whole program, from the empty session
Next ==
  \/ UploadStep
  \/ RangeStep
  \/ IntentStep
  \/ TermStep(IncludeTexts, ExcludeTexts)
  \/ SortStep
Spec == Init /\ [][Next]_vars

\* the ten range inputs over an installed collection
NextRange == RangeStep
SpecRange == InitLoaded(Files) /\ [][NextRange]_vars

\* the term lists and the intent checkboxes over an installed collection
NextTerms == TermStep(IncludeTexts, ExcludeTexts) \/ IntentStep
SpecTerms == InitLoaded(Files) /\ [][NextTerms]_vars

\* every filter control together, one text for each term input
NextFilter == RangeStep \/ IntentStep \/ TermStep({In_tool}, {Ex_free})
SpecFilter == InitLoaded({"FileSeo"}) /\ [][NextFilter]_vars

\* the range inputs and the term lists, "free" typed as an include term and
\* "tool" as an exclude term
NextStats == RangeStep \/ TermStep({Ex_free}, {In_tool})
SpecStats == InitLoaded({"FileSeo"}) /\ [][NextStats]_vars

\* uploads from the empty session, with the intent checkboxes and two of the
\* column headers in use meanwhile
NextUpload ==
  \/ UploadStep
  \/ IntentStep
  \/ \E field \in {"volume", "kd"} : handleSort(field)
SpecUpload == Init /\ [][NextUpload]_vars

\* uploads from the empty session while one control of each kind is in use:
\* a range bound, an intent checkbox, the include and exclude lists, a header
NextReplace ==
  \/ UploadStep
  \/ setMinVolume(T_800)
  \/ clearVolume
  \/ handleIntentChange("informational")
  \/ setIncludeKeywordInput(In_tool)
  \/ handleAddIncludeKeyword
  \/ setExcludeType("any")
  \/ handleSort("volume")
SpecReplace == Init /\ [][NextReplace]_vars

\* uploads every one of which parses and is installed, and the intent
\* checkboxes
NextOverlap ==
  \/ \E file \in Files : handleFileUpload(file)
  \/ \E i \in 1..MaxInFlight : complete(i)
  \/ timeout
  \/ IntentStep
SpecOverlap == Init /\ [][NextOverlap]_vars

\* uploads from the empty session, and the intent checkboxes. Papa.parse ends
\* every parse it is given, by calling complete or by failing, and a timer
\* that was set fires: neither waits for ever
parserEnds == \E i \in 1..MaxInFlight : complete(i) \/ parseError(i)
NextLoading == UploadStep \/ IntentStep
SpecLoading ==
  Init /\ [][NextLoading]_vars /\ WF_vars(parserEnds) /\ WF_vars(timeout)

\* the column headers and the intent checkboxes over an installed collection
NextSort == SortStep \/ IntentStep
SpecSort == InitLoaded(Files) /\ [][NextSort]_vars

(***************************************************************************)
(* Vocabulary of the properties, stated without the code's helpers.        *)
(***************************************************************************)
\* the positions of the collection whose record passes the filter
passingIndices == {i \in 1..Len(keywords) : keywordPasses(keywords[i])}

\* the records of the filtered collection
filteredSet == {filteredKeywords[j] : j \in 1..Len(filteredKeywords)}

RECURSIVE Pow10(_)
Pow10(n) == IF n = 0 THEN 1 ELSE 10 * Pow10(n - 1)

\* the sum of f over the index set S
RECURSIVE SumOver(_, _)
SumOver(f, S) ==
  IF S = {} THEN 0
  ELSE LET i == CHOOSE j \in S : TRUE IN f[i] + SumOver(f, S \ {i})

\* the integer a display string shows: thousands separators dropped, then
\* the decimal numeral it starts with, 0 when it starts with none
DisplayedInteger(text) ==
  LET t == SelectSeq(text, LAMBDA c : c # ",")
      n == Cardinality({j \in 1..Len(t) : \A i \in 1..j : IsDigit(t[i])})
  IN  SumOver([i \in 1..n |-> DigitVal(t[i]) * Pow10(n - i)], 1..n)

\* every filter value is unset
AllUnset ==
  /\ \A i \in 1..10 : boundTexts[i] = <<>>
  /\ \A i \in IntentNames : ~selectedIntents[i]
  /\ includeFilter.keywords = <<>>
  /\ excludeFilter.keywords = <<>>

\* C1: a record of the collection is in the filtered collection iff the eight
\* dimension tests (five ranges, intent, include, exclude) all hold: it is
\* present when the tuple of the eight results is all TRUE, and absent as soon
\* as one of them is FALSE, whatever the other seven say.
C1_AllDimensions ==
  LET shown == filteredSet
  IN  \A i \in 1..Len(keywords) :
        LET k == keywords[i]
            tests == <<volumeInRange(k), kdInRange(k), cpcInRange(k),
                       wordCountInRange(k), trafficInRange(k), intentMatch(k),
                       includeMatch(k), excludeMatch(k)>>
        IN  (k \in shown) = (tests = [d \in 1..8 |-> TRUE])

\* two dimensions are active, a record fails only the exclude test and is
\* absent, and another record is present
C1_Witness ==
  /\ excludeFilter.keywords # <<>>
  /\ \E i \in 1..10 : boundTexts[i] # <<>>
  /\ \E i \in 1..Len(keywords) :
       LET k == keywords[i]
       IN  /\ ~excludeMatch(k) /\ k \notin filteredSet
           /\ volumeInRange(k) /\ kdInRange(k) /\ cpcInRange(k)
           /\ wordCountInRange(k) /\ trafficInRange(k) /\ intentMatch(k)
           /\ includeMatch(k)
  /\ filteredKeywords # <<>>

\* C2: with every filter value unset (at session start, or after the values
\* have been set and cleared again) every record of the collection passes.
C2_UnsetPassesAll == AllUnset => filteredKeywords = keywords

\* the filter is back to all-unset after edits (the include mode was changed
\* on the way), over a collection with an empty keyword, an empty intent and
\* an unparsable volume
C2_Witness ==
  /\ AllUnset
  /\ includeFilter.type = "any"
  /\ \E i \in 1..Len(keywords) : keywords[i].keyword = <<>> /\ keywords[i].intent = <<>>
  /\ \E i \in 1..Len(keywords) : parseInt(keywords[i].volume) = NaN
  /\ filteredKeywords = keywords

\* min <= value <= max, where an unset bound constrains nothing
withinBounds(value, minText, min, maxText, max) ==
  /\ minText # <<>> => min.v <= value
  /\ maxText # <<>> => value <= max.v

\* the range is well formed: each bound is unset or its text reads as a number
boundsAreNumbers(minText, min, maxText, max) ==
  /\ minText = <<>> \/ min.k = "num"
  /\ maxText = <<>> \/ max.k = "num"

\* no filter value is set other than the two bounds given
onlyActive(minText, maxText) ==
  ActiveCount = Cardinality({t \in 1..2 : <<minText, maxText>>[t] # <<>>})

\* one dimension: its test is min <= value <= max, and when it is the only
\* active dimension the record is shown iff the test holds
rangeRule(shown, k, test, value, minText, min, maxText, max) ==
  boundsAreNumbers(minText, min, maxText, max) =>
    /\ test <=> withinBounds(value, minText, min, maxText, max)
    /\ onlyActive(minText, maxText) =>
         (k \in shown <=> withinBounds(value, minText, min, maxText, max))

\* C3: for each of the five numeric dimensions taken alone a record passes
\* iff min <= value <= max, bounds included, an unset bound being unbounded;
\* the volume value is the integer its display string shows once the
\* thousands separators are removed, 0 when it shows none.
C3_RangeInclusive ==
  LET shown == filteredSet
  IN  \A i \in 1..Len(keywords) :
        LET k == keywords[i]
        IN  /\ rangeRule(shown, k, volumeInRange(k), DisplayedInteger(k.volume),
                         minVolume, minVol, maxVolume, maxVol)
            /\ rangeRule(shown, k, kdInRange(k), k.kd.v, minKD, minKDVal,
                         maxKD, maxKDVal)
            /\ rangeRule(shown, k, cpcInRange(k), k.cpc.v, minCPC, minCPCVal,
                         maxCPC, maxCPCVal)
            /\ rangeRule(shown, k, wordCountInRange(k),
                         getWordCount(k.keyword).v, minWordCount, minWords,
                         maxWordCount, maxWords)
            /\ rangeRule(shown, k, trafficInRange(k), k.trafficPotential.v,
                         minTrafficPotential, minTraffic, maxTrafficPotential,
                         maxTraffic)

\* volume 800..1000: the records showing 800 are on the lower bound and are
\* shown, the ones showing 1,200 and 90 are not
C3_Witness ==
  /\ minVolume = T_800 /\ maxVolume = T_1000
  /\ \E i \in 1..Len(keywords) :
       keywords[i].volume = T_800 /\ keywords[i] \in filteredSet
  /\ \E i \in 1..Len(keywords) :
       DisplayedInteger(keywords[i].volume) = 1200 /\ keywords[i] \notin filteredSet
  /\ \E i \in 1..Len(keywords) :
       DisplayedInteger(keywords[i].volume) = 90 /\ keywords[i] \notin filteredSet

\* the code letter of each checkbox
IntentCode ==
  [informational |-> "I", transactional |-> "T", commercial |-> "C",
   navigational |-> "N"]
selectedCodes == {IntentCode[i] : i \in {j \in IntentNames : selectedIntents[j]}}
lettersOf(text) == {text[j] : j \in 1..Len(text)}

\* C4: with no intent selected every record passes the intent dimension; with
\* some selected a record passes it iff its intent string contains at least
\* one selected code letter, whatever the include and exclude modes are; and
\* with the intents as the only active filter the record is shown iff so.
C4_IntentAny ==
  LET shown == filteredSet
      codes == selectedCodes
  IN  \A i \in 1..Len(keywords) :
        LET k == keywords[i]
            rule == codes = {} \/ codes \cap lettersOf(k.intent) # {}
        IN  /\ intentMatch(k) <=> rule
            /\ ActiveCount = Cardinality(codes) => (k \in shown <=> rule)

\* selected {I, C}, include mode ANY: the record with intent "T,C" is shown,
\* the one with intent "T,N" is not
C4_Witness ==
  /\ selectedCodes = {"I", "C"}
  /\ includeFilter.type = "any"
  /\ \E i \in 1..Len(keywords) :
       keywords[i].intent = <<"T", ",", "C">> /\ keywords[i] \in filteredSet
  /\ \E i \in 1..Len(keywords) :
       keywords[i].intent = <<"T", ",", "N">> /\ keywords[i] \notin filteredSet

\* two characters are the same letter up to case
sameLetter(c, d) ==
  \/ c = d
  \/ \E i \in 1..26 : {c, d} = {UpperChars[i], LowerChars[i]}

\* term occurs in text at some offset, letter case ignored
containsIgnoringCase(text, term) ==
  \E off \in 0..(Len(text) - Len(term)) :
    \A j \in 1..Len(term) : sameLetter(text[off + j], term[j])

\* the containment test of a term list under a mode
termsHold(mode, terms, text) ==
  IF mode = "all"
    THEN \A t \in 1..Len(terms) : containsIgnoringCase(text, terms[t])
    ELSE \E t \in 1..Len(terms) : containsIgnoringCase(text, terms[t])

\* C5: with no include term every record passes the include dimension; with
\* terms, in mode ALL a record passes iff every term is a case-insensitive
\* substring of its keyword, in mode ANY iff at least one is; and with the
\* include list as the only active filter the record is shown iff so.
C5_IncludeRule ==
  LET shown == filteredSet
  IN  \A i \in 1..Len(keywords) :
        LET k == keywords[i]
            rule == \/ includeFilter.keywords = <<>>
                    \/ termsHold(includeFilter.type, includeFilter.keywords, k.keyword)
        IN  /\ includeMatch(k) <=> rule
            /\ ActiveCount = Len(includeFilter.keywords) => (k \in shown <=> rule)

\* terms ["Seo", "tool"] in mode ALL: "best seo tool" is shown, "seo guide"
\* is not
C5_Witness ==
  /\ includeFilter = [type |-> "all", keywords |-> <<trim(In_Seo), In_tool>>]
  /\ \E i \in 1..Len(keywords) :
       /\ keywords[i].keyword =
            <<"b", "e", "s", "t", " ", "s", "e", "o", " ", "t", "o", "o", "l">>
       /\ keywords[i] \in filteredSet
  /\ \E i \in 1..Len(keywords) :
       /\ keywords[i].keyword = <<"s", "e", "o", " ", "g", "u", "i", "d", "e">>
       /\ keywords[i] \notin filteredSet

\* with exclude terms, a record is rejected by the exclude dimension iff the
\* containment test under exclude.mode holds, and with the exclude list as
\* the only active filter it is hidden iff so
C6_Rejects ==
  LET shown == filteredSet
  IN  \A i \in 1..Len(keywords) :
        LET k == keywords[i]
            rejected == /\ excludeFilter.keywords # <<>>
                        /\ termsHold(excludeFilter.type, excludeFilter.keywords,
                                     k.keyword)
        IN  /\ ~excludeMatch(k) <=> rejected
            /\ ActiveCount = Len(excludeFilter.keywords) =>
                 (k \notin shown <=> rejected)

\* C6: the exclude mode is ALL at session start; with no exclude term every
\* record passes the exclude dimension; with terms, in mode ALL a record is
\* rejected only when every term is contained in its keyword (one that
\* contains only some of them passes), in mode ANY when at least one is.
C6_ExcludeRule == excludeFilter.type = "all" /\ []C6_Rejects

\* terms ["free", "Trial"] in mode ALL: "free trial offer" is hidden, "free
\* offer", which contains only the first, is shown
C6_Witness ==
  /\ excludeFilter = [type |-> "all", keywords |-> <<Ex_free, trim(Ex_Trial)>>]
  /\ \E i \in 1..Len(keywords) :
       /\ keywords[i].keyword =
            <<"f", "r", "e", "e", " ", "t", "r", "i", "a", "l", " ", "o", "f", "f", "e", "r">>
       /\ keywords[i] \notin filteredSet
  /\ \E i \in 1..Len(keywords) :
       /\ keywords[i].keyword = <<"f", "r", "e", "e", " ", "o", "f", "f", "e", "r">>
       /\ keywords[i] \in filteredSet

\* the length of the run of equal fields that ends a non-empty click history
trailingRun(clicks) ==
  LET n == Len(clicks)
  IN  CHOOSE r \in 1..n :
        /\ \A i \in (n - r + 1)..n : clicks[i] = clicks[n]
        /\ r = n \/ clicks[n - r] # clicks[n]

\* C7: the sort state starts unset; a click on a field other than the current
\* one makes it the sort field, descending; a click on the current field keeps
\* it and flips the direction.  So after any clicks the sort field is the one
\* clicked last and the direction is ascending iff the run of clicks on it
\* that ends the history has even length.
C7_SortToggle ==
  IF sortClicks = <<>>
    THEN sortField = null /\ sortDirection = "desc"
    ELSE /\ sortField = sortClicks[Len(sortClicks)]
         /\ sortDirection = (IF trailingRun(sortClicks) % 2 = 0 THEN "asc" ELSE "desc")

\* a field is clicked twice (ascending), then another field is clicked
\* (descending again) and clicked once more (ascending)
C7_Witness ==
  /\ Len(sortClicks) = 4
  /\ sortClicks[1] = sortClicks[2] /\ sortClicks[2] # sortClicks[3]
  /\ sortClicks[3] = sortClicks[4]
  /\ sortField = sortClicks[4]
  /\ sortDirection = "asc"

\* the number a record is ordered by under a sort field
sortKey(k, field) ==
  IF field = "volume" THEN DisplayedInteger(k.volume) ELSE k[field].v

\* how often a record occurs in a sequence
occurrences(s, k) == Cardinality({j \in 1..Len(s) : s[j] = k})

\* C8: with a sort field set, the visible sequence is a permutation of the
\* filtered collection, non-decreasing in the field when ascending and
\* non-increasing when descending (volume by the integer it displays), and in
\* both directions records with equal values keep the relative order they
\* have in the filtered collection.
C8_SortedStable ==
  sortField # null =>
    LET fk == filteredKeywords
        sk == sortedKeywords
        key == [j \in 1..Len(sk) |-> sortKey(sk[j], sortField)]
        pos == [j \in 1..Len(sk) |-> CHOOSE p \in 1..Len(fk) : fk[p] = sk[j]]
    IN  /\ Len(sk) = Len(fk)
        /\ \A p \in 1..Len(fk) : occurrences(sk, fk[p]) = occurrences(fk, fk[p])
        /\ \A i, j \in 1..Len(sk) :
             i < j =>
               /\ sortDirection = "asc" => key[i] <= key[j]
               /\ sortDirection = "desc" => key[i] >= key[j]
               /\ key[i] = key[j] => pos[i] < pos[j]

\* descending by kd with two shown records of equal kd, and the order shown
\* differs from the filtered order
C8_Witness ==
  /\ sortField = "kd" /\ sortDirection = "desc"
  /\ Len(sortedKeywords) >= 3
  /\ sortedKeywords # filteredKeywords
  /\ \E i, j \in 1..Len(sortedKeywords) :
       i < j /\ sortedKeywords[i].kd = sortedKeywords[j].kd

\* C9: with the sort state unset the visible sequence is the subsequence of
\* the collection made of the records that pass the filter, each once, in the
\* order of the collection.
C9_UnsortedOrder ==
  sortField = null =>
    LET P == passingIndices
        sk == sortedKeywords
        nth == [j \in 1..Cardinality(P) |->
                  CHOOSE i \in P : Cardinality({p \in P : p <= i}) = j]
    IN  /\ Len(sk) = Cardinality(P)
        /\ \A j \in 1..Len(sk) : sk[j] = keywords[nth[j]]

\* unset sort, a filter that passes some records and not others, and the
\* passing ones are not a prefix of the collection
C9_Witness ==
  /\ sortField = null
  /\ Len(sortedKeywords) >= 2 /\ Len(sortedKeywords) < Len(keywords)
  /\ \E i \in passingIndices : i > 1 /\ (i - 1) \notin passingIndices

\* C10: totalVolume is the sum of the displayed volume over exactly the
\* records that pass the filter, and 0 when none passes.
C10_TotalVolume ==
  /\ totalVolume =
       Num(SumOver([i \in 1..Len(keywords) |-> DisplayedInteger(keywords[i].volume)],
                   passingIndices))
  /\ passingIndices = {} => totalVolume = Num(0)

\* some records pass and some do not; among those that pass are a volume with
\* a thousands separator and an unparsable one
C10_Witness ==
  /\ passingIndices # {} /\ passingIndices # 1..Len(keywords)
  /\ \E i \in passingIndices : includes(keywords[i].volume, <<",">>)
  /\ \E i \in passingIndices : parseInt(keywords[i].volume) = NaN
  /\ totalVolume.v > 0

\* C11: averageDifficulty is the sum of difficulty over the filtered records
\* divided by their count, rounded to the nearest integer with an exact half
\* going up (q - 1/2 <= sum / count < q + 1/2); it is 0 when no record passes.
C11_AverageRounded ==
  LET P == passingIndices
      n == Cardinality(P)
      s == SumOver([i \in 1..Len(keywords) |-> keywords[i].kd.v], P)
      q == averageKD
  IN  /\ q.k = "num"
      /\ n = 0 => q.v = 0
      /\ n > 0 => 2 * n * q.v - n <= 2 * s /\ 2 * s < 2 * n * q.v + n

\* the filtered records have the difficulties 10 and 15: the average 12.5 is
\* shown as 13
C11_Witness ==
  /\ [j \in 1..Len(filteredKeywords) |-> filteredKeywords[j].kd.v] = <<10, 15>>
  /\ averageKD = Num(13)

\* the records of the visible sequence
visibleSet == {sortedKeywords[j] : j \in 1..Len(sortedKeywords)}

\* what is shown is fixed by the collection and the filter values alone: the
\* visible records are the filtered ones, and the two statistics are the sum
\* and the rounded mean over the positions that pass the filter
C12_ShownFromFilter ==
  LET P == passingIndices
      n == Cardinality(P)
      volumes == SumOver([i \in 1..Len(keywords) |->
                            DisplayedInteger(keywords[i].volume)], P)
      kds == SumOver([i \in 1..Len(keywords) |-> keywords[i].kd.v], P)
  IN  /\ visibleSet = {keywords[i] : i \in P}
      /\ Len(sortedKeywords) = n
      /\ totalVolume = Num(volumes)
      /\ averageKD = Num(IF n = 0 THEN 0 ELSE (2 * kds + n) \div (2 * n))

\* C12: a click on a column header changes the sort state only: the
\* collection and every filter value are the same before and after it, and
\* so are the set and the number of visible records, totalVolume and
\* averageDifficulty, which in every state are fixed by the collection and
\* the filter values and do not depend on the sort field or direction.
C12_SortFrame ==
  /\ []C12_ShownFromFilter
  /\ [][sortClicks' # sortClicks =>
          UNCHANGED <<uploadVars, rangeVars, includeVars, excludeVars,
                      selectedIntents>>]_vars

\* headers have been clicked several times, on more than one field, while a
\* filter hides some records, and the statistics are those of the records shown
C12_Witness ==
  /\ Len(sortClicks) >= 3
  /\ \E i, j \in 1..Len(sortClicks) : sortClicks[i] # sortClicks[j]
  /\ anyIntentSelected
  /\ Len(sortedKeywords) >= 2 /\ Len(sortedKeywords) < Len(keywords)
  /\ sortedKeywords # filteredKeywords
  /\ totalVolume.v > 0 /\ averageKD.v > 0


(***************************************************************************)
(* Ingestion.                                                              *)
(***************************************************************************)
\* the text of a column, empty when the row is too short to have it
columnText(row, i) == IF i <= Len(row) THEN row[i] ELSE <<>>

hasDigit(text) == \E i \in 1..Len(text) : IsDigit(text[i])

allDigits(text) == text # <<>> /\ \A i \in 1..Len(text) : IsDigit(text[i])

\* the number a run of digits denotes
plainValue(text) ==
  SumOver([i \in 1..Len(text) |-> DigitVal(text[i]) * Pow10(Len(text) - i)],
          1..Len(text))

\* a numeric column: a number always, 0 when the text has no digit, the
\* number itself (times scale) when the text is a run of digits
numberFrom(n, text, scale) ==
  /\ n.k = "num"
  /\ ~hasDigit(text) => n.v = 0
  /\ allDigits(text) => n.v = scale * plainValue(text)

\* a cost written as digits, a point and one or two digits, in hundredths
decimalFrom(n, text) ==
  \A p \in 2..(Len(text) - 1) :
    LET whole == SubSeq(text, 1, p - 1)
        frac == SubSeq(text, p + 1, Len(text))
    IN  (text[p] = "." /\ allDigits(whole) /\ allDigits(frac) /\ Len(frac) <= 2)
          => n.v = 100 * plainValue(whole)
                     + plainValue(frac) * Pow10(2 - Len(frac))

\* records is what the rows of a file map to: the header dropped, one record
\* for each other row, in row order, column by column
mappedFrom(records, rows) ==
  /\ Len(records) = Len(rows) - 1
  /\ \A i \in 1..Len(records) :
       LET row == rows[i + 1]
           r == records[i]
       IN  /\ r.keyword = columnText(row, 1)
           /\ r.intent = columnText(row, 2)
           /\ r.volume = columnText(row, 3)
           /\ numberFrom(r.kd, columnText(row, 4), 1)
           /\ numberFrom(r.cpc, columnText(row, 5), 100)
           /\ decimalFrom(r.cpc, columnText(row, 5))
           /\ numberFrom(r.trafficPotential, columnText(row, 6), 1)
           /\ r.parentKeyword = columnText(row, 7)

\* every collection a parse has produced: the installed one and those
\* waiting for their delay to end
producedCollections ==
  (IF keywords = <<>> THEN {} ELSE {keywords})
    \cup {timers[i] : i \in 1..Len(timers)}

C14_WholeOrNothing ==
  keywords = <<>> \/ \E file \in Files : mappedFrom(keywords, Rows(file))

C14_ReplaceWholesale ==
  /\ []C14_WholeOrNothing
  /\ [][/\ (keywords' # keywords \/ Len(timers') < Len(timers)) =>
             /\ keywords' = Head(timers)
             /\ UNCHANGED <<rangeVars, includeVars, excludeVars,
                            selectedIntents, sortVars>>
        /\ ~UNCHANGED <<rangeVars, includeVars, excludeVars, selectedIntents,
                        sortVars>> => UNCHANGED keywords]_vars

\* FileTrial's two records are installed, FileSeo's seven wait for their
\* delay to replace them, and a bound, a term and a sort field are in use
C14_Witness ==
  /\ Len(keywords) = 2 /\ ~isLoading
  /\ parsing = <<>> /\ Len(timers) = 1 /\ Len(Head(timers)) = 7
  /\ minVolume = T_800
  /\ includeFilter.keywords = <<In_tool>>
  /\ sortField = "volume"


\* C15: an upload that fails never touches what is shown: the step that
\* starts an upload and the step in which a pending parse ends without a
\* result both leave the collection, every filter value and the sort state
\* as they were, so the visible records and the statistics, which are
\* computed from these alone, stay the same; the collection is the previous
\* one, or the empty one if none had been installed.
C15_FailureKeepsCollection ==
  [][(\/ Len(parsing') > Len(parsing)
      \/ Len(parsing') < Len(parsing) /\ timers' = timers)
       => UNCHANGED <<keywords, rangeVars, includeVars, excludeVars,
                      selectedIntents, sortVars>>]_vars

\* a parse has failed over an installed collection: nothing is in flight any
\* more, yet the loading flag set by the upload is still up
C15_Witness ==
  /\ isLoading /\ parsing = <<>> /\ timers = <<>>
  /\ Len(keywords) = 7
  /\ minVolume = T_800 /\ sortField = "volume"


\* the number each of the ten bound texts is read as
boundValues ==
  <<minVol, maxVol, minKDVal, maxKDVal, minCPCVal, maxCPCVal, minWords,
    maxWords, minTraffic, maxTraffic>>

\* C16: a bound whose text is not read as a number counts as absent: when
\* such a bound is the only filter value set, every record of the collection
\* is shown.
C16_UnparsableAbsent ==
  (/\ ActiveCount = 1
   /\ \E i \in 1..10 : boundTexts[i] # <<>> /\ boundValues[i] = NaN)
    => filteredKeywords = keywords


\* the number of whitespace-delimited tokens of a text: the places where a
\* run of characters other than white space begins
tokenCount(text) ==
  Cardinality({i \in 1..Len(text) :
                 ~IsSpace(text[i]) /\ (i = 1 \/ IsSpace(text[i - 1]))})

\* C17: the word count of every keyword is its number of whitespace-delimited
\* tokens, zero for a keyword that is empty or only white space; so a record
\* without any token is not shown when the word-count minimum is 1.
C17_WordCountTokens ==
  \A i \in 1..Len(keywords) :
    LET k == keywords[i]
    IN  /\ getWordCount(k.keyword) = Num(tokenCount(k.keyword))
        /\ (minWordCount = T_1 /\ tokenCount(k.keyword) = 0)
             => k \notin filteredSet


(***************************************************************************)
(* The term lists.                                                         *)
(***************************************************************************)
\* the terms of a list, without order or repetition
termSet(terms) == {terms[t] : t \in 1..Len(terms)}

\* a text that is not empty and neither starts nor ends with white space
isTrimmed(term) ==
  term # <<>> /\ ~IsSpace(term[1]) /\ ~IsSpace(term[Len(term)])

\* the containment test of a set of terms under a mode
termSetHolds(mode, terms, text) ==
  IF mode = "all"
    THEN \A t \in terms : containsIgnoringCase(text, t)
    ELSE \E t \in terms : containsIgnoringCase(text, t)

\* every stored term is trimmed and not empty; which records are shown
\* depends on the terms of each list only as a set, so a repeated term
\* changes nothing; a record with an empty keyword is never shown while the
\* include list has a term
C19_StoredTerms ==
  LET shown == filteredSet
      included == termSet(includeFilter.keywords)
      excluded == termSet(excludeFilter.keywords)
  IN  /\ \A t \in included \cup excluded : isTrimmed(t)
      /\ \A i \in 1..Len(keywords) :
           LET k == keywords[i]
           IN  /\ k \in shown <=>
                    /\ volumeInRange(k) /\ kdInRange(k) /\ cpcInRange(k)
                    /\ wordCountInRange(k) /\ trafficInRange(k)
                    /\ intentMatch(k)
                    /\ included = {}
                         \/ termSetHolds(includeFilter.type, included, k.keyword)
                    /\ excluded = {}
                         \/ ~termSetHolds(excludeFilter.type, excluded, k.keyword)
               /\ (k.keyword = <<>> /\ included # {}) => k \notin shown

\* a list grows only by the trimmed input, which is not empty, placed at its
\* end, nothing else but the input box changing; when the term was already
\* in the list the set of terms stays the same
grows(before, after, input) ==
  Len(after) > Len(before) =>
    /\ trim(input) # <<>>
    /\ after = Append(before, trim(input))
    /\ trim(input) \in termSet(before) => termSet(after) = termSet(before)

\* C19: after any sequence of add, remove and mode actions every stored
\* include and exclude term is non-empty and trimmed; an empty or blank input
\* never lengthens a list; an added term goes to the end of its list,
\* duplicates included, and a duplicate leaves the set of terms, on which
\* alone the visible records depend, unchanged; a record with an empty
\* keyword is never visible while the include list has a term.
C19_TermLists ==
  /\ []C19_StoredTerms
  /\ [][/\ grows(includeFilter.keywords, includeFilter'.keywords,
                 includeKeywordInput)
        /\ Len(includeFilter'.keywords) > Len(includeFilter.keywords) =>
             /\ includeFilter'.type = includeFilter.type
             /\ UNCHANGED <<uploadVars, rangeVars, excludeVars,
                            selectedIntents, sortVars>>
        /\ grows(excludeFilter.keywords, excludeFilter'.keywords,
                 excludeKeywordInput)
        /\ Len(excludeFilter'.keywords) > Len(excludeFilter.keywords) =>
             /\ excludeFilter'.type = excludeFilter.type
             /\ UNCHANGED <<uploadVars, rangeVars, includeVars,
                            selectedIntents, sortVars>>]_vars

\* "tool" was added twice and a blank is typed in the include box; the record
\* with the empty keyword is hidden and some record is shown
C19_Witness ==
  /\ includeFilter.keywords = <<In_tool, In_tool>>
  /\ includeKeywordInput = In_blank
  /\ \E i \in 1..Len(keywords) :
       keywords[i].keyword = <<>> /\ keywords[i] \notin filteredSet
  /\ filteredKeywords # <<>>


\* C20: when uploads overlap, once every one of them has been parsed and
\* installed the collection is the mapping of the file selected last, in
\* whatever order the parses completed; and isLoading is true in every state
\* in which an upload has started and not yet installed its records.
C20_LastSelectedWins ==
  /\ (parsing = <<>> /\ timers = <<>> /\ lastSelected # NoFile)
       => mappedFrom(keywords, Rows(lastSelected))
  /\ (parsing # <<>> \/ timers # <<>>) => isLoading


\* C21: loading terminates: whenever isLoading is true, a state in which it
\* is false follows, whether the parses complete or fail, the parser and the
\* timer being fair.
C21_LoadingTerminates == isLoading ~> ~isLoading


\* the positions of the records that the exclude test lets through
notExcluded == {i \in 1..Len(keywords) : excludeMatch(keywords[i])}

\* the seven tests other than the exclude test
passesOtherTests(k) ==
  /\ volumeInRange(k) /\ kdInRange(k) /\ cpcInRange(k)
  /\ wordCountInRange(k) /\ trafficInRange(k)
  /\ intentMatch(k) /\ includeMatch(k)

\* the visible records are those the exclude test lets through among the
\* records that pass the other tests
C22_VisibleIsPassing ==
  filteredSet =
    {keywords[i] : i \in {j \in notExcluded : passesOtherTests(keywords[j])}}

====
